---- MODULE Spec2Model ----
(***************************************************************************)
(* Career intelligence pipeline: the ai_job_queue work ledger, the         *)
(* job_progress mirror, the career_intelligence_data result store, the     *)
(* ai_errors log, and the processes that write them (ai-worker, the O*NET  *)
(* import, the administrative endpoints of the server).                    *)
(*                                                                         *)
(* Every pool.query of the source is one autocommit statement: the model   *)
(* takes one step per awaited statement, and any statement may be rejected *)
(* by the database (ok = FALSE), which throws at that await.               *)
(***************************************************************************)
EXTENDS Integers, Sequences, FiniteSets, TLC

\* ------------------------------------------------------------------ bounds
MaxRows == 2        \* rows the ai_job_queue sequence (BIGSERIAL id) may hold
MaxErrors == 1      \* rows the ai_errors table may hold
MaxProcessed == 2   \* items one worker run may process
MaxFetchRows == 3   \* rows of the tables fetchQueueItem is applied to

Workers == {"w1", "w2"}
Jobs == {1, 2}
QueryOrder == <<"q1">>     \* SELECT id FROM ai_queries, in collation order
Queries == {QueryOrder[i] : i \in 1..Len(QueryOrder)}

\* ------------------------------------------------------------------ values
NULL == "NULL"
US == "US"
EU == "EU"
RegionCodes == {US, EU}   \* regions.code; db-setup seeds US only
DefaultPriority == 100
Status == {"pending", "running", "ok", "error"}

Keys == [job : Jobs, region : RegionCodes, query : Queries]

VARIABLES
    jobs,         \* jobs table: the ids imported so far
    queue,        \* ai_job_queue: sequence of rows, the row id is the index
    progress,     \* job_progress: key -> row, for the keys that have a row
    results,      \* career_intelligence_data: sequence of rows (key, response_data)
    errors,       \* ai_errors: sequence of entries, in insertion order
    uniqueIndex,  \* idx_ai_job_queue_unique exists
    prompt_templates,  \* prompt_templates: sequence of rows (id, content)
    wk,           \* per worker: position in main / processQueueItem and locals
    test,         \* POST /api/admin/worker/test: position and locals
    argv,         \* process.argv of the server process, shared by all handlers
    pool,         \* db/connection.ts: the module's pool (null, in use, ending)
    workerStart,  \* POST /api/admin/worker/start: per run, position and locals
    setupImport   \* POST /api/admin/setup/import: position and locals

vars == <<jobs, queue, progress, results, errors, uniqueIndex, prompt_templates, wk, test,
          argv, pool, workerStart, setupImport>>

KeyOf(row) == [job |-> row.job, region |-> row.region, query |-> row.query]

QueueIds == 1..Len(queue)

\* ------------------------------------------------------------ ai-queries
\* prompt_templates.id; the ids of ai_queries are among them
TemplateIds == Queries \cup {"q2", "q3", "q4"}
\* purpose, template, schema and version of a template, as one value
TemplateContents == {"v1", "v2", "v3"}

HasTemplate(t, id) == \E i \in 1..Len(t) : t[i].id = id

\* Mutant of upsertPrompt: a plain INSERT
insertPrompt(t, id, content) == Append(t, [id |-> id, content |-> content])

\* INSERT INTO prompt_templates ... ON CONFLICT (id) DO UPDATE SET ...
\* on the PRIMARY KEY of the table
upsertPrompt(t, id, content) ==
    IF HasTemplate(t, id)
    THEN [i \in 1..Len(t) |-> IF t[i].id = id THEN [t[i] EXCEPT !.content = content] ELSE t[i]]
    ELSE Append(t, [id |-> id, content |-> content])

\* ai-queries main over the catalog of ai_queries: a template per query id
RECURSIVE InstallCatalog(_, _)
InstallCatalog(t, i) ==
    IF i > Len(QueryOrder) THEN t
    ELSE InstallCatalog(upsertPrompt(t, QueryOrder[i], "v1"), i + 1)

\* ------------------------------------------------------------ fetchQueueItem
\* JOIN prompt_templates pt ON q.query_id = pt.id
\* WHERE q.status = 'pending' [AND r.code = $1]
\* Mutant of Matches: the region filter is left out
MatchesAnyRegion(q, id, regionCode) ==
    /\ HasTemplate(prompt_templates, q[id].query)
    /\ q[id].status = "pending"

Matches(q, id, regionCode) ==
    /\ HasTemplate(prompt_templates, q[id].query)
    /\ q[id].status = "pending"
    /\ (regionCode # NULL => q[id].region = regionCode)

\* Mutant of Before: ORDER BY q.id ASC alone
BeforeById(q, a, b) == a < b

\* ORDER BY q.priority DESC, q.id ASC
Before(q, a, b) ==
    \/ q[a].priority > q[b].priority
    \/ (q[a].priority = q[b].priority /\ a < b)

\* LIMIT 1; result.rows[0] || null  (0 stands for null)
fetchQueueItem(q, regionCode) ==
    LET cand == {id \in 1..Len(q) : Matches(q, id, regionCode)}
    IN  IF cand = {} THEN 0
        ELSE CHOOSE id \in cand : \A o \in cand \ {id} : Before(q, id, o)

\* ---------------------------------------------------------------- payloads
\* A Generation Service response body, as JSON.parse sees it: whether it
\* parses, and the four top-level fields validateJSON reads.
Truthy(v) == v \notin {"absent", "null", "zero", "empty", "false"}

GoodA == [parses |-> TRUE, query_id |-> "q", job |-> "j", data |-> "A", provenance |-> "p"]
GoodB == [parses |-> TRUE, query_id |-> "q", job |-> "j", data |-> "B", provenance |-> "p"]
NoProvenance == [parses |-> TRUE, query_id |-> "q", job |-> "j", data |-> "A", provenance |-> "absent"]
Contents == {GoodA, GoodB, NoProvenance}
NoContent == [parses |-> FALSE, query_id |-> "absent", job |-> "absent", data |-> "absent", provenance |-> "absent"]

validateJSON(c) ==
    IF ~c.parses THEN [valid |-> FALSE, data |-> NoContent, error |-> "parse"]
    ELSE IF ~Truthy(c.query_id) \/ ~Truthy(c.job) \/ ~Truthy(c.data) \/ ~Truthy(c.provenance)
         THEN [valid |-> FALSE, data |-> NoContent, error |-> "missing"]
         ELSE [valid |-> TRUE, data |-> c, error |-> NULL]

\* ------------------------------------------------------------------ config
RetryMax == 3     \* config.ai.retry.max (AI_RETRY_MAX, default 3)
BackoffSec == 15  \* config.ai.retry.backoffSec (AI_RETRY_BACKOFF, default 15)

\* Errors thrown by openai.chat.completions.create: status 429 or code
\* rate_limit_exceeded; status >= 500; a 4xx status (malformed request, auth);
\* a request timeout (no status, no rate-limit code)
RetryableErrors == {"rate_limit", "server"}
UpstreamErrors == RetryableErrors \cup {"client", "timeout"}

\* Mutant of shouldRetry: the cap is tested after the retry
shouldRetryOnceMore(e, retries) == e \in RetryableErrors /\ retries <= RetryMax

\* Mutant of shouldRetry: every error is retried
shouldRetryAnyError(e, retries) == retries < RetryMax

\* callOpenAI: (isRateLimitError || isServerError) && retries < config.ai.retry.max
shouldRetry(e, retries) == e \in RetryableErrors /\ retries < RetryMax

\* Mutant of backoffMs: linear growth
backoffLinear(retries) == BackoffSec * 1000 * (retries + 1)

\* callOpenAI: config.ai.retry.backoffSec * 1000 * Math.pow(2, retries)
backoffMs(retries) == BackoffSec * 1000 * 2^retries

\* ----------------------------------------------------------------- workers
\* options.maxItems: <<>> is undefined (no --max), <<n>> is parseInt's n
MaxItemsOpts == {<<>>, <<0>>, <<1>>}

\* if (options.maxItems): undefined and 0 are falsy
HasMax(m) == m # <<>> /\ m[1] # 0
RegionOpts == {NULL, US}

\* process.argv: the script name and the options a main() would parse from it
ServerArgv == [script |-> "server", max |-> <<>>, enqueue |-> FALSE]

\* getPool: a pool is created when the module has none
getPool(p) == IF p = "none" THEN "open" ELSE p

\* Outcomes of pool.query: a statement is executed or rejected by the server;
\* a pool on which end() was called rejects every new statement
Settles == IF pool = "ending" THEN {FALSE} ELSE BOOLEAN

\* Handler locals before any request
NoRequest == [pc |-> "none", maxItems |-> 0, originalArgv |-> ServerArgv]
NoImport == [pc |-> "none", originalArgv |-> ServerArgv]

IdleWorker ==
    [pc |-> "idle",    \* "killed": the process was shut down while awaiting `at`
     item |-> 0, data |-> NoContent, err |-> NULL, retries |-> 0,
     calls |-> 0,       \* completion requests sent for the item
     last |-> "none",   \* outcome of the latest request: valid, invalid, or the error
     slept |-> 0,       \* the latest backoff delay, in ms
     maxItems |-> <<>>, region |-> NULL, dryRun |-> FALSE,
     processed |-> 0, successful |-> 0, failed |-> 0, at |-> "idle"]

Init ==
    /\ jobs = {}
    /\ queue = <<>>
    /\ progress = <<>>
    /\ results = <<>>
    /\ errors = <<>>
    /\ uniqueIndex = FALSE
    /\ prompt_templates = InstallCatalog(<<>>, 1)
    /\ wk = [w \in Workers |-> IdleWorker]
    /\ test = [pc |-> "idle", job |-> 0, items |-> <<>>]
    /\ argv = ServerArgv
    /\ pool = "none"
    /\ workerStart = [w \in Workers |-> NoRequest]
    /\ setupImport = NoImport

ItemKey(w) == KeyOf(queue[wk[w].item])

\* main: option parsing and the start of the loop
StartWorker(w, maxItems, region, dryRun) ==
    /\ wk[w].pc = "idle"
    /\ wk' = [wk EXCEPT ![w] = [IdleWorker EXCEPT !.pc = "fetch", !.maxItems = maxItems,
                                                   !.region = region, !.dryRun = dryRun]]
    /\ UNCHANGED <<argv, pool, workerStart, setupImport, prompt_templates, jobs, queue, progress, results, errors, uniqueIndex, test>>

\* Mutant of AfterProcess: the max-items check is left out
AfterProcessNoBudget(s, success) ==
    [s EXCEPT !.processed = @ + 1,
              !.successful = IF success THEN @ + 1 ELSE @,
              !.failed = IF success THEN @ ELSE @ + 1,
              !.item = 0, !.data = NoContent, !.err = NULL, !.retries = 0,
              !.calls = 0, !.last = "none", !.slept = 0,
              !.pc = "fetch"]

\* main: after processQueueItem returned `success`: the counters and the
\* max-items check (config.ai.perJobRateLimitSec is 0: no delay)
AfterProcess(s, success) ==
    LET n == s.processed + 1
    IN  [s EXCEPT !.processed = n,
                  !.successful = IF success THEN @ + 1 ELSE @,
                  !.failed = IF success THEN @ ELSE @ + 1,
                  !.item = 0, !.data = NoContent, !.err = NULL, !.retries = 0,
                  !.calls = 0, !.last = "none", !.slept = 0,
                  !.pc = IF HasMax(s.maxItems) /\ n >= s.maxItems[1] THEN "exited" ELSE "fetch"]

\* Mutant of Caught: a response that fails validation is requested again
CaughtRetryInvalid(s, e) ==
    IF e = "invalid" /\ s.retries < RetryMax THEN [s EXCEPT !.retries = @ + 1]
    ELSE IF s.dryRun THEN AfterProcess(s, FALSE)
    ELSE [s EXCEPT !.err = e, !.pc = "errQueue"]

\* processQueueItem: the catch block entered with error message e
Caught(s, e) ==
    IF s.dryRun THEN AfterProcess(s, FALSE)
    ELSE [s EXCEPT !.err = e, !.pc = "errQueue"]

\* main: an error escaping the loop: catch, finally closePool, rethrow
Escaped(s) ==
    [s EXCEPT !.pc = "failed", !.item = 0, !.data = NoContent, !.err = NULL, !.retries = 0,
              !.calls = 0, !.last = "none", !.slept = 0]

\* main: const item = await fetchQueueItem(options.region)
Fetch(w) ==
    /\ wk[w].pc = "fetch"
    /\ wk[w].processed < MaxProcessed
    /\ \E ok \in Settles :
         LET id == fetchQueueItem(queue, wk[w].region)
         IN  wk' = [wk EXCEPT ![w] =
                      IF ~ok THEN Escaped(@)
                      ELSE IF id = 0
                           THEN (IF HasMax(@.maxItems) THEN [@ EXCEPT !.pc = "exited"] ELSE @)
                           ELSE [@ EXCEPT !.item = id, !.pc = "markRunning"]]
    /\ pool' = getPool(pool)
    /\ UNCHANGED <<argv, workerStart, setupImport, prompt_templates, jobs, queue, progress, results, errors, uniqueIndex, test>>

\* Mutant of MarkQueueItemRunning: the claim is counted in attempts
MarkQueueItemRunningCountingAttempts(w) ==
    /\ wk[w].pc = "markRunning"
    /\ \E ok \in Settles :
         IF ok
         THEN /\ queue' = [queue EXCEPT ![wk[w].item] =
                             [@ EXCEPT !.status = "running", !.attempts = @ + 1]]
              /\ wk' = [wk EXCEPT ![w].pc = IF wk[w].dryRun THEN "completeQueue" ELSE "call"]
         ELSE /\ wk' = [wk EXCEPT ![w] = Caught(@, "db")]
              /\ UNCHANGED queue
    /\ pool' = getPool(pool)
    /\ UNCHANGED <<argv, workerStart, setupImport, prompt_templates, jobs, progress, results, errors, uniqueIndex, test>>

\* processQueueItem: await markQueueItemRunning(queue_id)
MarkQueueItemRunning(w) ==
    /\ wk[w].pc = "markRunning"
    /\ \E ok \in Settles :
         IF ok
         THEN /\ queue' = [queue EXCEPT ![wk[w].item].status = "running"]
              /\ wk' = [wk EXCEPT ![w].pc = IF wk[w].dryRun THEN "completeQueue" ELSE "call"]
         ELSE /\ wk' = [wk EXCEPT ![w] = Caught(@, "db")]
              /\ UNCHANGED queue
    /\ pool' = getPool(pool)
    /\ UNCHANGED <<argv, workerStart, setupImport, prompt_templates, jobs, progress, results, errors, uniqueIndex, test>>

\* callOpenAI, one attempt: the response validates, fails validation, or the
\* call throws and is retried (shouldRetry) or rethrown
CallOpenAI(w) ==
    /\ wk[w].pc = "call"
    /\ \/ \E c \in Contents :
            LET v == validateJSON(c)
            IN  wk' = [wk EXCEPT ![w] =
                         IF v.valid
                         THEN [@ EXCEPT !.calls = @ + 1, !.last = "valid",
                                        !.data = v.data, !.pc = "save"]
                         ELSE Caught([@ EXCEPT !.calls = @ + 1, !.last = "invalid"], "invalid")]
       \/ \E e \in UpstreamErrors :
            wk' = [wk EXCEPT ![w] =
                     IF shouldRetry(e, @.retries)
                     THEN [@ EXCEPT !.calls = @ + 1, !.last = e,
                                    !.slept = backoffMs(wk[w].retries), !.retries = @ + 1]
                     ELSE Caught([@ EXCEPT !.calls = @ + 1, !.last = e], e)]
    /\ UNCHANGED <<argv, pool, workerStart, setupImport, prompt_templates, jobs, queue, progress, results, errors, uniqueIndex, test>>

\* Mutant of saveCareerIntelligence: a plain INSERT
saveAlwaysInsert(r, key, data) == Append(r, [key |-> key, data |-> data])

\* INSERT ... ON CONFLICT (job_id, region_id, query_id) DO UPDATE
\* on the UNIQUE(job_id, region_id, query_id) constraint of the table
saveCareerIntelligence(r, key, data) ==
    IF \E i \in 1..Len(r) : r[i].key = key
    THEN [i \in 1..Len(r) |-> IF r[i].key = key THEN [r[i] EXCEPT !.data = data] ELSE r[i]]
    ELSE Append(r, [key |-> key, data |-> data])

\* processQueueItem: await saveCareerIntelligence(...)
Save(w) ==
    /\ wk[w].pc = "save"
    /\ \E ok \in Settles :
         IF ok
         THEN /\ results' = saveCareerIntelligence(results, ItemKey(w), wk[w].data)
              /\ wk' = [wk EXCEPT ![w].pc = "completeQueue"]
         ELSE /\ wk' = [wk EXCEPT ![w] = Caught(@, "db")]
              /\ UNCHANGED results
    /\ pool' = getPool(pool)
    /\ UNCHANGED <<argv, workerStart, setupImport, prompt_templates, jobs, queue, progress, errors, uniqueIndex, test>>

\* Mutant of CompleteQueue: the retries of the call are added to attempts
CompleteQueueCountingRetries(w) ==
    /\ wk[w].pc = "completeQueue"
    /\ \E ok \in Settles :
         IF ok
         THEN /\ queue' = [queue EXCEPT ![wk[w].item] =
                             [@ EXCEPT !.status = "ok", !.attempts = @ + wk[w].retries]]
              /\ wk' = [wk EXCEPT ![w].pc = "completeProgress"]
         ELSE /\ wk' = [wk EXCEPT ![w] = Caught(@, "db")]
              /\ UNCHANGED queue
    /\ pool' = getPool(pool)
    /\ UNCHANGED <<argv, workerStart, setupImport, prompt_templates, jobs, progress, results, errors, uniqueIndex, test>>

\* markQueueItemComplete, first statement: UPDATE ai_job_queue SET status = 'ok'
CompleteQueue(w) ==
    /\ wk[w].pc = "completeQueue"
    /\ \E ok \in Settles :
         IF ok
         THEN /\ queue' = [queue EXCEPT ![wk[w].item].status = "ok"]
              /\ wk' = [wk EXCEPT ![w].pc = "completeProgress"]
         ELSE /\ wk' = [wk EXCEPT ![w] = Caught(@, "db")]
              /\ UNCHANGED queue
    /\ pool' = getPool(pool)
    /\ UNCHANGED <<argv, workerStart, setupImport, prompt_templates, jobs, progress, results, errors, uniqueIndex, test>>

\* Mutant of UpdateProgress: the WHERE clause is left out
UpdateProgressAll(p, key, status, lastError) ==
    [k \in DOMAIN p |-> [status |-> status, last_error |-> lastError]]

\* UPDATE job_progress SET ... WHERE key: no row, no change
UpdateProgress(p, key, status, lastError) ==
    IF key \notin DOMAIN p THEN p
    ELSE [p EXCEPT ![key] = [status |-> status, last_error |-> lastError]]

\* Mutant of CompleteProgress: the Error Entries of the key are deleted
CompleteProgressClearingErrors(w) ==
    /\ wk[w].pc = "completeProgress"
    /\ \E ok \in Settles :
         IF ok
         THEN /\ progress' = UpdateProgress(progress, ItemKey(w), "ok", NULL)
              /\ errors' = SelectSeq(errors, LAMBDA x : x.key # ItemKey(w))
              /\ wk' = [wk EXCEPT ![w] = AfterProcess(@, TRUE)]
         ELSE /\ wk' = [wk EXCEPT ![w] = Caught(@, "db")]
              /\ UNCHANGED <<progress, errors>>
    /\ pool' = getPool(pool)
    /\ UNCHANGED <<argv, workerStart, setupImport, prompt_templates, jobs, queue, results, uniqueIndex, test>>

\* markQueueItemComplete, second statement: UPDATE job_progress SET status = 'ok'
CompleteProgress(w) ==
    /\ wk[w].pc = "completeProgress"
    /\ \E ok \in Settles :
         IF ok
         THEN /\ progress' = UpdateProgress(progress, ItemKey(w), "ok", NULL)
              /\ wk' = [wk EXCEPT ![w] = AfterProcess(@, TRUE)]
         ELSE /\ wk' = [wk EXCEPT ![w] = Caught(@, "db")]
              /\ UNCHANGED progress
    /\ pool' = getPool(pool)
    /\ UNCHANGED <<argv, workerStart, setupImport, prompt_templates, jobs, queue, results, errors, uniqueIndex, test>>

\* markQueueItemError, first statement: UPDATE ai_job_queue SET status = 'error'
ErrorQueue(w) ==
    /\ wk[w].pc = "errQueue"
    /\ \E ok \in Settles :
         IF ok
         THEN /\ queue' = [queue EXCEPT ![wk[w].item] =
                             [@ EXCEPT !.status = "error", !.last_error = wk[w].err,
                                       !.attempts = @ + 1]]
              /\ wk' = [wk EXCEPT ![w].pc = "errProgress"]
         ELSE /\ wk' = [wk EXCEPT ![w] = Escaped(@)]
              /\ UNCHANGED queue
    /\ pool' = getPool(pool)
    /\ UNCHANGED <<argv, workerStart, setupImport, prompt_templates, jobs, progress, results, errors, uniqueIndex, test>>

\* markQueueItemError, second statement: UPDATE job_progress SET status = 'error'
ErrorProgress(w) ==
    /\ wk[w].pc = "errProgress"
    /\ \E ok \in Settles :
         IF ok
         THEN /\ progress' = UpdateProgress(progress, ItemKey(w), "error", wk[w].err)
              /\ wk' = [wk EXCEPT ![w].pc = "errLog"]
         ELSE /\ wk' = [wk EXCEPT ![w] = Escaped(@)]
              /\ UNCHANGED progress
    /\ pool' = getPool(pool)
    /\ UNCHANGED <<argv, workerStart, setupImport, prompt_templates, jobs, queue, results, errors, uniqueIndex, test>>

\* markQueueItemError, third statement: INSERT INTO ai_errors
ErrorLog(w) ==
    /\ wk[w].pc = "errLog"
    /\ Len(errors) < MaxErrors
    /\ \E ok \in Settles :
         IF ok
         THEN /\ errors' = Append(errors, [key |-> ItemKey(w), error |-> wk[w].err])
              /\ wk' = [wk EXCEPT ![w] = AfterProcess(@, FALSE)]
         ELSE /\ wk' = [wk EXCEPT ![w] = Escaped(@)]
              /\ UNCHANGED errors
    /\ pool' = getPool(pool)
    /\ UNCHANGED <<argv, workerStart, setupImport, prompt_templates, jobs, queue, progress, results, uniqueIndex, test>>

\* process.on('SIGTERM' | 'SIGINT'): process.exit(0), whatever the worker is
\* awaiting; the locals of the process are gone, the row it had fetched and the
\* await it was at are kept as history
Shutdown(w) ==
    /\ wk[w].pc \notin {"idle", "exited", "failed", "killed"}
    /\ wk' = [wk EXCEPT ![w] = [IdleWorker EXCEPT !.pc = "killed", !.item = wk[w].item,
                                                  !.at = wk[w].pc]]
    /\ UNCHANGED <<argv, pool, workerStart, setupImport, prompt_templates, jobs, queue, progress, results, errors, uniqueIndex, test>>

\* ------------------------------------------------------------------ import
NewRow(j, r, qid) ==
    [job |-> j, region |-> r, query |-> qid, status |-> "pending",
     attempts |-> 0, priority |-> DefaultPriority, last_error |-> NULL]

HasKey(q, k) == \E id \in 1..Len(q) : KeyOf(q[id]) = k

\* INSERT INTO job_progress ... ON CONFLICT (job_id, region_id, query_id) DO NOTHING
createProgressRecords(p, j, r) ==
    LET new == {k \in Keys : k.job = j /\ k.region = r}
    IN  [k \in DOMAIN p \cup new |-> IF k \in DOMAIN p THEN p[k]
                                     ELSE [status |-> "pending", last_error |-> NULL]]

\* INSERT INTO ai_job_queue ... ON CONFLICT DO NOTHING, for each query id in
\* turn: the only conflicts are those of the indexes that exist (the primary
\* key on the fresh id never conflicts)
RECURSIVE enqueueJob(_, _, _, _, _)
enqueueJob(q, unique, j, r, i) ==
    IF i > Len(QueryOrder) THEN q
    ELSE LET k == [job |-> j, region |-> r, query |-> QueryOrder[i]]
             q1 == IF unique /\ HasKey(q, k) THEN q ELSE Append(q, NewRow(j, r, QueryOrder[i]))
         IN  enqueueJob(q1, unique, j, r, i + 1)

\* onet-import main, one record of the loop: importJob, createProgressRecords
\* and, with --enqueue, enqueueJob
ImportRecord(j, enqueue) ==
    /\ jobs' = jobs \cup {j}
    /\ progress' = createProgressRecords(progress, j, US)
    /\ queue' = IF enqueue THEN enqueueJob(queue, uniqueIndex, j, US, 1) ELSE queue
    /\ Len(queue') <= MaxRows
    /\ pool' = getPool(pool)
    /\ UNCHANGED <<argv, workerStart, setupImport, prompt_templates, results, errors, uniqueIndex, wk, test>>

NoDuplicateKeys(q) ==
    \A a, b \in 1..Len(q) : KeyOf(q[a]) = KeyOf(q[b]) => a = b

RECURSIVE EnqueueJobs(_, _)
EnqueueJobs(q, js) ==
    IF js = <<>> THEN q
    ELSE EnqueueJobs(enqueueJob(q, TRUE, Head(js), US, 1), Tail(js))

RECURSIVE ProgressJobs(_, _)
ProgressJobs(p, js) ==
    IF js = <<>> THEN p
    ELSE ProgressJobs(createProgressRecords(p, Head(js), US), Tail(js))

Orders(S) == {f \in [1..Cardinality(S) -> S] : \A a, b \in 1..Cardinality(S) : f[a] = f[b] => a = b}

\* POST /api/admin/setup/create-queue: CREATE UNIQUE INDEX (rejected when the
\* table already holds duplicates), then a row per job and query that is not
\* there yet, then the progress records
CreateQueue ==
    /\ NoDuplicateKeys(queue)
    /\ uniqueIndex' = TRUE
    /\ \E js \in Orders(jobs) :
         /\ queue' = EnqueueJobs(queue, js)
         /\ progress' = ProgressJobs(progress, js)
    /\ Len(queue') <= MaxRows
    /\ pool' = getPool(pool)
    /\ UNCHANGED <<argv, workerStart, setupImport, prompt_templates, jobs, results, errors, wk, test>>

\* ------------------------------------------- POST /api/admin/worker/test
QueryRank(qid) == CHOOSE i \in 1..Len(QueryOrder) : QueryOrder[i] = qid

\* the ids of S as a sequence, ORDER BY q.query_id (ties in id order)
RECURSIVE OrderByQuery(_, _)
OrderByQuery(q, S) ==
    IF S = {} THEN <<>>
    ELSE LET first == CHOOSE a \in S : \A b \in S \ {a} :
                          \/ QueryRank(q[a].query) < QueryRank(q[b].query)
                          \/ (QueryRank(q[a].query) = QueryRank(q[b].query) /\ a < b)
         IN  <<first>> \o OrderByQuery(q, S \ {first})

TestIdle == [pc |-> "idle", job |-> 0, items |-> <<>>]

\* SELECT DISTINCT j.id ... WHERE q.status = 'pending' LIMIT 1 (no ORDER BY:
\* any job with a pending row)
TestSelectJob ==
    /\ test.pc = "idle"
    /\ \E j \in jobs :
         /\ \E id \in QueueIds : queue[id].job = j /\ queue[id].status = "pending"
         /\ test' = [pc |-> "items", job |-> j, items |-> <<>>]
    /\ pool' = getPool(pool)
    /\ UNCHANGED <<argv, workerStart, setupImport, prompt_templates, jobs, queue, progress, results, errors, uniqueIndex, wk>>

\* SELECT q.id ... WHERE q.job_id = $1 AND q.status = 'pending' ORDER BY q.query_id
TestSelectItems ==
    /\ test.pc = "items"
    /\ LET S == {id \in QueueIds : queue[id].job = test.job /\ queue[id].status = "pending"}
       IN  test' = IF S = {} THEN TestIdle
                   ELSE [test EXCEPT !.pc = "update", !.items = OrderByQuery(queue, S)]
    /\ pool' = getPool(pool)
    /\ UNCHANGED <<argv, workerStart, setupImport, prompt_templates, jobs, queue, progress, results, errors, uniqueIndex, wk>>

\* UPDATE ai_job_queue SET status = 'ok' WHERE id = $1, for the next item; a
\* rejected statement is counted as failed and the loop goes on
TestUpdate ==
    /\ test.pc = "update"
    /\ \E ok \in Settles :
         queue' = IF ok THEN [queue EXCEPT ![Head(test.items)].status = "ok"] ELSE queue
    /\ test' = IF Len(test.items) = 1 THEN TestIdle
               ELSE [test EXCEPT !.items = Tail(@)]
    /\ pool' = getPool(pool)
    /\ UNCHANGED <<argv, workerStart, setupImport, prompt_templates, jobs, progress, results, errors, uniqueIndex, wk>>

\* ----------------------------------------------------------- specification
\* One worker process beside the import and the administrative endpoints
Solo == {"w1"}

Next ==
    \/ \E w \in Solo, m \in MaxItemsOpts, r \in RegionOpts, d \in BOOLEAN :
         StartWorker(w, m, r, d)
    \/ \E w \in Solo : Fetch(w)
    \/ \E w \in Solo : MarkQueueItemRunning(w)
    \/ \E w \in Solo : CallOpenAI(w)
    \/ \E w \in Solo : Save(w)
    \/ \E w \in Solo : CompleteQueue(w)
    \/ \E w \in Solo : CompleteProgress(w)
    \/ \E w \in Solo : ErrorQueue(w)
    \/ \E w \in Solo : ErrorProgress(w)
    \/ \E w \in Solo : ErrorLog(w)
    \/ \E w \in Solo : Shutdown(w)
    \/ \E j \in Jobs, e \in BOOLEAN : ImportRecord(j, e)
    \/ CreateQueue
    \/ TestSelectJob
    \/ TestSelectItems
    \/ TestUpdate

Spec == Init /\ [][Next]_vars

\* Several worker processes against one backlog (the import enqueues job 1)
NextRace ==
    \/ \E w \in Workers : StartWorker(w, <<>>, NULL, FALSE)
    \/ \E w \in Workers : Fetch(w)
    \/ \E w \in Workers : MarkQueueItemRunning(w)
    \/ \E w \in Workers : CallOpenAI(w)
    \/ \E w \in Workers : Save(w)
    \/ \E w \in Workers : CompleteQueue(w)
    \/ \E w \in Workers : CompleteProgress(w)
    \/ \E w \in Workers : ErrorQueue(w)
    \/ \E w \in Workers : ErrorProgress(w)
    \/ \E w \in Workers : ErrorLog(w)
    \/ \E w \in Workers : Shutdown(w)
    \/ ImportRecord(1, TRUE)

SpecRace == Init /\ [][NextRace]_vars

\* One worker against a backlog the import has enqueued: any sequence of
\* records imported with --enqueue (the same record twice included)
RECURSIVE Backlog(_, _)
Backlog(q, js) ==
    IF js = <<>> THEN q
    ELSE Backlog(enqueueJob(q, FALSE, Head(js), US, 1), Tail(js))

InitBacklog ==
    /\ \E js \in UNION {[1..n -> Jobs] : n \in 1..(MaxRows \div Len(QueryOrder))} :
         /\ jobs = {js[i] : i \in 1..Len(js)}
         /\ queue = Backlog(<<>>, js)
         /\ progress = ProgressJobs(<<>>, js)
    /\ results = <<>>
    /\ errors = <<>>
    /\ uniqueIndex = FALSE
    /\ prompt_templates = InstallCatalog(<<>>, 1)
    /\ wk = [w \in Workers |-> IdleWorker]
    /\ test = TestIdle
    /\ argv = ServerArgv
    /\ pool = "none"
    /\ workerStart = [w \in Workers |-> NoRequest]
    /\ setupImport = NoImport

NextBacklog ==
    \/ \E w \in Solo, m \in MaxItemsOpts, r \in RegionOpts, d \in BOOLEAN :
         StartWorker(w, m, r, d)
    \/ \E w \in Solo : Fetch(w)
    \/ \E w \in Solo : MarkQueueItemRunning(w)
    \/ \E w \in Solo : CallOpenAI(w)
    \/ \E w \in Solo : Save(w)
    \/ \E w \in Solo : CompleteQueue(w)
    \/ \E w \in Solo : CompleteProgress(w)
    \/ \E w \in Solo : ErrorQueue(w)
    \/ \E w \in Solo : ErrorProgress(w)
    \/ \E w \in Solo : ErrorLog(w)
    \/ \E w \in Solo : Shutdown(w)

SpecBacklog == InitBacklog /\ [][NextBacklog]_vars

\* The worker of SpecBacklog under the scheduling of the event loop: every
\* awaited statement and every completion request settles, and the async
\* function goes on from there
WorkerStep ==
    \E w \in Solo :
        \/ Fetch(w) \/ MarkQueueItemRunning(w) \/ CallOpenAI(w) \/ Save(w)
        \/ CompleteQueue(w) \/ CompleteProgress(w)
        \/ ErrorQueue(w) \/ ErrorProgress(w) \/ ErrorLog(w)

SpecBudget == InitBacklog /\ [][NextBacklog]_vars /\ WF_vars(WorkerStep)

\* fetchQueueItem on any table content: rows of any status, priority and
\* region (the columns an administrator may set), one worker about to fetch
FetchRows ==
    [job : {1}, region : RegionCodes, query : Queries, status : Status,
     attempts : {0}, priority : {DefaultPriority, 2 * DefaultPriority}, last_error : {NULL}]

InitFetch ==
    /\ jobs = {1}
    /\ queue \in UNION {[1..n -> FetchRows] : n \in 0..MaxFetchRows}
    /\ progress = [k \in {KeyOf(queue[id]) : id \in 1..Len(queue)} |->
                     [status |-> "pending", last_error |-> NULL]]
    /\ results = <<>>
    /\ errors = <<>>
    /\ uniqueIndex = FALSE
    /\ prompt_templates = InstallCatalog(<<>>, 1)
    /\ \E m \in MaxItemsOpts, r \in {NULL} \cup RegionCodes :
         wk = [w \in Workers |->
                 IF w \in Solo
                 THEN [IdleWorker EXCEPT !.pc = "fetch", !.maxItems = m, !.region = r]
                 ELSE IdleWorker]
    /\ test = TestIdle
    /\ argv = ServerArgv
    /\ pool = "none"
    /\ workerStart = [w \in Workers |-> NoRequest]
    /\ setupImport = NoImport

NextFetch == \E w \in Solo : Fetch(w)

SpecFetch == InitFetch /\ [][NextFetch]_vars

\* ai-queries: prompt templates published and republished, in any order and
\* with any content, after the catalog was installed once
UpsertPrompt(id, content) ==
    /\ prompt_templates' = upsertPrompt(prompt_templates, id, content)
    /\ pool' = getPool(pool)
    /\ UNCHANGED <<argv, workerStart, setupImport, jobs, queue, progress, results, errors, uniqueIndex, wk, test>>

InitCatalog ==
    /\ jobs = {}
    /\ queue = <<>>
    /\ progress = <<>>
    /\ results = <<>>
    /\ errors = <<>>
    /\ uniqueIndex = FALSE
    /\ prompt_templates = InstallCatalog(<<>>, 1)
    /\ wk = [w \in Workers |-> IdleWorker]
    /\ test = TestIdle
    /\ argv = ServerArgv
    /\ pool = "none"
    /\ workerStart = [w \in Workers |-> NoRequest]
    /\ setupImport = NoImport

NextCatalog == \E id \in TemplateIds, content \in TemplateContents : UpsertPrompt(id, content)

SpecCatalog == InitCatalog /\ [][NextCatalog]_vars

\* Two worker processes without a budget against one backlog: w1 runs the
\* whole loop under the scheduling of the event loop; w2 claims a row (fetch,
\* markQueueItemRunning) and its process may be shut down at any point
NextCrash ==
    \/ \E w \in Workers : StartWorker(w, <<>>, NULL, FALSE)
    \/ \E w \in Workers : Fetch(w)
    \/ \E w \in Workers : MarkQueueItemRunning(w)
    \/ \E w \in Solo : CallOpenAI(w)
    \/ \E w \in Solo : Save(w)
    \/ \E w \in Solo : CompleteQueue(w)
    \/ \E w \in Solo : CompleteProgress(w)
    \/ \E w \in Solo : ErrorQueue(w)
    \/ \E w \in Solo : ErrorProgress(w)
    \/ \E w \in Solo : ErrorLog(w)
    \/ \E w \in Workers : Shutdown(w)

\* Scheduling of w1's loop that forces no failure: a row that stays
\* fetchable is eventually fetched, and an awaited statement or request
\* eventually settles; a poll that finds nothing just repeats
ClaimStep == \E w \in Solo : Fetch(w) /\ wk'[w].pc = "markRunning"

LoopStep ==
    \E w \in Solo :
        \/ MarkQueueItemRunning(w) \/ CallOpenAI(w) \/ Save(w)
        \/ CompleteQueue(w) \/ CompleteProgress(w)
        \/ ErrorQueue(w) \/ ErrorProgress(w) \/ ErrorLog(w)

SpecCrash == InitBacklog /\ [][NextCrash]_vars /\ WF_vars(ClaimStep) /\ WF_vars(LoopStep)

\* ---- the admin endpoints of the server process (server.ts)
DefaultMaxItems == 100
BodyMaxItems == {<<>>, <<1>>}   \* req.body.maxItems: undefined or a number

\* POST /api/admin/worker/start up to the response: the handler saves
\* process.argv, overwrites it and starts the dynamic import of the worker
WorkerStartRequest(w, body) ==
    /\ workerStart[w].pc = "none"
    /\ LET maxItems == IF HasMax(body) THEN body[1] ELSE DefaultMaxItems
       IN  /\ workerStart' = [workerStart EXCEPT ![w] =
                                [pc |-> "importing", maxItems |-> maxItems, originalArgv |-> argv]]
           /\ argv' = [script |-> "ai-worker", max |-> <<maxItems>>, enqueue |-> FALSE]
    /\ UNCHANGED <<jobs, queue, progress, results, errors, uniqueIndex, prompt_templates, wk, test,
                   pool, setupImport>>

\* the import has resolved: runWorker() is main(), which parses the
\* process.argv of that moment into its options
RunWorker(w) ==
    /\ workerStart[w].pc = "importing"
    /\ wk[w].pc = "idle"
    /\ wk' = [wk EXCEPT ![w] = [IdleWorker EXCEPT !.pc = "fetch", !.maxItems = argv.max,
                                                   !.region = NULL, !.dryRun = FALSE]]
    /\ workerStart' = [workerStart EXCEPT ![w].pc = "running"]
    /\ UNCHANGED <<jobs, queue, progress, results, errors, uniqueIndex, prompt_templates, test,
                   argv, pool, setupImport>>

\* main's finally: closePool calls pool.end() on the module's pool, if any;
\* end() on a pool that is already ending is rejected
ClosePoolBegin(w) ==
    /\ workerStart[w].pc = "running"
    /\ wk[w].pc \in {"exited", "failed"}
    /\ pool' = IF pool = "open" THEN "ending" ELSE pool
    /\ workerStart' = [workerStart EXCEPT ![w].pc = IF pool = "open" THEN "closing" ELSE "closed"]
    /\ UNCHANGED <<jobs, queue, progress, results, errors, uniqueIndex, prompt_templates, wk, test,
                   argv, setupImport>>

\* closePool after await pool.end(): pool = null
ClosePoolEnd(w) ==
    /\ workerStart[w].pc = "closing"
    /\ pool' = "none"
    /\ workerStart' = [workerStart EXCEPT ![w].pc = "closed"]
    /\ UNCHANGED <<jobs, queue, progress, results, errors, uniqueIndex, prompt_templates, wk, test,
                   argv, setupImport>>

\* runWorker().catch(...).finally(() => { process.argv = originalArgv })
RestoreArgv(w) ==
    /\ workerStart[w].pc = "closed"
    /\ argv' = workerStart[w].originalArgv
    /\ workerStart' = [workerStart EXCEPT ![w].pc = "done"]
    /\ UNCHANGED <<jobs, queue, progress, results, errors, uniqueIndex, prompt_templates, wk, test,
                   pool, setupImport>>

\* POST /api/admin/setup/import up to the await of the dynamic import
ImportRequest ==
    /\ setupImport.pc = "none"
    /\ setupImport' = [pc |-> "importing", originalArgv |-> argv]
    /\ argv' = [script |-> "onet-import", max |-> <<>>, enqueue |-> TRUE]
    /\ UNCHANGED <<jobs, queue, progress, results, errors, uniqueIndex, prompt_templates, wk, test,
                   pool, workerStart>>

\* importONet(true): one occupation of the embedded data is imported, with
\* the enqueue option main parses from process.argv
ImportStep(j) ==
    /\ setupImport.pc = "importing"
    /\ pool # "ending"
    /\ ImportRecord(j, argv.enqueue)

\* the handler after await importONet(true): process.argv is restored when
\* the import succeeded; a rejected import goes to the catch, which does not
ImportReturn ==
    /\ setupImport.pc = "importing"
    /\ \E ok \in BOOLEAN :
         argv' = IF ok THEN setupImport.originalArgv ELSE argv
    /\ setupImport' = [setupImport EXCEPT !.pc = "done"]
    /\ UNCHANGED <<jobs, queue, progress, results, errors, uniqueIndex, prompt_templates, wk, test,
                   pool, workerStart>>

\* The server process with a backlog: one worker run started through the
\* endpoint and one import request, handled concurrently
NextArgv ==
    \/ \E w \in Solo, body \in BodyMaxItems : WorkerStartRequest(w, body)
    \/ \E w \in Solo : RunWorker(w)
    \/ \E w \in Solo : Fetch(w)
    \/ \E w \in Solo : MarkQueueItemRunning(w)
    \/ \E w \in Solo : CallOpenAI(w)
    \/ \E w \in Solo : Save(w)
    \/ \E w \in Solo : CompleteQueue(w)
    \/ \E w \in Solo : CompleteProgress(w)
    \/ \E w \in Solo : ErrorQueue(w)
    \/ \E w \in Solo : ErrorProgress(w)
    \/ \E w \in Solo : ErrorLog(w)
    \/ \E w \in Solo : ClosePoolBegin(w)
    \/ \E w \in Solo : ClosePoolEnd(w)
    \/ \E w \in Solo : RestoreArgv(w)
    \/ ImportRequest
    \/ \E j \in Jobs : ImportStep(j)
    \/ ImportReturn

SpecArgv == InitBacklog /\ [][NextArgv]_vars

\* The server process with a backlog and two worker runs started through
\* the endpoint: w1 runs the whole loop, w2 as far as its first claim, and
\* each run that ends closes the pool
NextPool ==
    \/ \E w \in Workers, body \in BodyMaxItems : WorkerStartRequest(w, body)
    \/ \E w \in Workers : RunWorker(w)
    \/ \E w \in Workers : Fetch(w)
    \/ \E w \in Workers : MarkQueueItemRunning(w)
    \/ \E w \in Solo : CallOpenAI(w)
    \/ \E w \in Solo : Save(w)
    \/ \E w \in Solo : CompleteQueue(w)
    \/ \E w \in Solo : CompleteProgress(w)
    \/ \E w \in Solo : ErrorQueue(w)
    \/ \E w \in Solo : ErrorProgress(w)
    \/ \E w \in Solo : ErrorLog(w)
    \/ \E w \in Workers : ClosePoolBegin(w)
    \/ \E w \in Workers : ClosePoolEnd(w)
    \/ \E w \in Workers : RestoreArgv(w)

SpecPool == InitBacklog /\ [][NextPool]_vars

\* validateJSON on any response content: the worker holds the content of a
\* completion (response.content) for the row it has claimed and is about to
\* await validateJSON. A field is absent, or present with a JSON value: null,
\* 0, "", false, or a non-empty value.
Payloads ==
    [parses : {TRUE}, query_id : {"absent", "empty", "q"}, job : {"absent", "null", "j"},
     data : {"absent", "zero", "false", "A"}, provenance : {"absent", "null", "p"}]
    \cup {NoContent}

\* processQueueItem: const validation = await validateJSON(response.content);
\* if (!validation.valid) throw ...
Validate(w) ==
    /\ wk[w].pc = "validate"
    /\ LET v == validateJSON(wk[w].data)
       IN  wk' = [wk EXCEPT ![w] =
                    IF v.valid THEN [@ EXCEPT !.last = "valid", !.data = v.data, !.pc = "save"]
                    ELSE Caught([@ EXCEPT !.last = "invalid", !.data = NoContent], "invalid")]
    /\ UNCHANGED <<argv, pool, workerStart, setupImport, prompt_templates, jobs, queue, progress, results, errors, uniqueIndex, test>>

InitValidate ==
    /\ jobs = {1}
    /\ queue = <<[NewRow(1, US, QueryOrder[1]) EXCEPT !.status = "running"]>>
    /\ progress = createProgressRecords(<<>>, 1, US)
    /\ results = <<>>
    /\ errors = <<>>
    /\ uniqueIndex = FALSE
    /\ prompt_templates = InstallCatalog(<<>>, 1)
    /\ \E c \in Payloads :
         wk = [w \in Workers |->
                 IF w \in Solo
                 THEN [IdleWorker EXCEPT !.pc = "validate", !.item = 1, !.calls = 1, !.data = c]
                 ELSE IdleWorker]
    /\ test = TestIdle
    /\ argv = ServerArgv
    /\ pool = "none"
    /\ workerStart = [w \in Workers |-> NoRequest]
    /\ setupImport = NoImport

NextValidate == \E w \in Solo : Validate(w)

SpecValidate == InitValidate /\ [][NextValidate]_vars

\* ================================================================== claims

\* A worker that has completed the claim step (fetchQueueItem, then
\* markQueueItemRunning) and has not begun a commit
Owns(w, id) == wk[w].item = id /\ wk[w].pc \in {"call", "save"}

\* C1: at-most-one owner. No row is handed to two workers: at every point in
\* time at most one worker is processing a given ai_job_queue row.
AtMostOneOwner ==
    \A a, b \in Workers : \A id \in QueueIds :
        Owns(a, id) /\ Owns(b, id) => a = b

\* C2: exactly-one terminal commit. A row whose status is 'ok' or 'error'
\* keeps that status in every step of every worker.
TerminalIsFinal ==
    [][\A id \in QueueIds :
         queue[id].status \in {"ok", "error"} => queue'[id].status = queue[id].status]_vars

ResultRows(r, k) == {i \in 1..Len(r) : r[i].key = k}

\* C3: the success commit is all-or-nothing. A step that writes the Result
\* Payload of a key also sets a Task Instance of that key to 'ok' and the
\* Progress Record of the key to 'ok'.
SuccessCommitAtomic ==
    [][\A k \in Keys :
         (\E i \in ResultRows(results', k) : i \notin ResultRows(results, k) \/ results'[i] # results[i])
         => /\ \E id \in QueueIds : /\ KeyOf(queue[id]) = k
                                    /\ queue[id].status # "ok"
                                    /\ queue'[id].status = "ok"
            /\ k \in DOMAIN progress' /\ progress'[k].status = "ok"]_vars

\* C4: the failure commit is all-or-nothing. A step that sets a Task Instance
\* to 'error' also sets the Progress Record of its key to 'error' and appends
\* the Error Entry of that key.
FailureCommitAtomic ==
    [][\A id \in QueueIds :
         queue[id].status # "error" /\ queue'[id].status = "error"
         => /\ queue'[id].attempts = queue[id].attempts + 1
            /\ KeyOf(queue[id]) \in DOMAIN progress'
            /\ progress'[KeyOf(queue[id])].status = "error"
            /\ Len(errors') = Len(errors) + 1
            /\ errors'[Len(errors')].key = KeyOf(queue[id])]_vars

\* C5: a Result Payload row exists only if a Task Instance of its key is
\* 'ok' (never while the instance is running or failed).
ResultOnlyIfDone ==
    \A i \in 1..Len(results) :
        \E id \in QueueIds : KeyOf(queue[id]) = results[i].key /\ queue[id].status = "ok"

\* A commit (markQueueItemComplete, markQueueItemError) on row id was begun
\* and its last statement has not been executed
CommitInProgress(id) ==
    \E w \in Workers :
        /\ wk[w].item = id
        /\ \/ wk[w].pc \in {"completeProgress", "errProgress", "errLog"}
           \/ wk[w].pc = "killed" /\ wk[w].at \in {"completeProgress", "errProgress", "errLog"}

\* C6: progress mirror. Whenever no commit is in progress on a row, the
\* job_progress status of its key equals the row's ai_job_queue status.
ProgressMirror ==
    \A id \in QueueIds :
        ~CommitInProgress(id)
        => /\ KeyOf(queue[id]) \in DOMAIN progress
           /\ progress[KeyOf(queue[id])].status = queue[id].status

\* C7: after any sequence of imports the ai_job_queue holds one row per
\* (job_id, region_id, query_id).
OneRowPerTriple ==
    \A a, b \in QueueIds :
        (queue[a].job = queue[b].job /\ queue[a].region = queue[b].region
         /\ queue[a].query = queue[b].query) => a = b

StuckRunningStays ==
    [][\A id \in QueueIds :
         (/\ queue[id].status = "running"
          /\ \E w \in Workers : wk[w].pc = "killed" /\ wk[w].at = "call" /\ wk[w].item = id)
         => queue'[id].status = "running"]_vars

\* C10: idempotent result upsert. After a success commit has written the
\* Result Payload of a key, the table holds exactly one row for the key and
\* it holds the data of that (the latest) commit.
UpsertIdempotent ==
    [][\A w \in Workers :
         (wk[w].pc = "save" /\ wk'[w].pc = "completeQueue")
         => LET k == ItemKey(w)
            IN  /\ Cardinality(ResultRows(results', k)) = 1
                /\ \A i \in ResultRows(results', k) : results'[i].data = wk[w].data
                /\ \A i \in 1..Len(results) : results[i].key # k => results'[i] = results[i]]_vars

\* C10 witness: the worker has committed row 1 and has now written the
\* payload of row 2, of the same key, again; the table holds the one row, with
\* the data of the second commit
UpsertIdempotentWitness ==
    /\ Len(queue) = 2 /\ KeyOf(queue[1]) = KeyOf(queue[2])
    /\ queue[1].status = "ok" /\ wk["w1"].successful = 1 /\ ~wk["w1"].dryRun
    /\ wk["w1"].pc = "completeQueue" /\ wk["w1"].item = 2 /\ wk["w1"].data = GoodB
    /\ Len(results) = 1 /\ results[1].data = GoodB

\* C11: validation gating. A response that fails validation ends the calls
\* for the instance: the worker enters the failure commit with no further
\* completion request, the failure commit sets the row to 'error', and no
\* step of the worker writes a Result Payload meanwhile.
ValidationGating ==
    [][\A w \in Workers :
         /\ (wk[w].pc = "call" /\ wk'[w].last = "invalid")
            => /\ wk'[w].pc = "errQueue" /\ wk'[w].err = "invalid"
               /\ wk'[w].retries = wk[w].retries
               /\ results' = results /\ queue' = queue
         /\ wk[w].last = "invalid"
            => /\ wk'[w].pc # "call"
               /\ wk'[w].calls \in {wk[w].calls, 0}
               /\ results' = results
         /\ (wk[w].last = "invalid" /\ wk[w].pc = "errQueue" /\ wk'[w].pc = "errProgress")
            => queue'[wk[w].item].status = "error"]_vars

\* C11 witness: the only response for row 1 failed validation; the row is
\* 'error' and there is no result row
ValidationGatingWitness ==
    /\ wk["w1"].last = "invalid" /\ wk["w1"].calls = 1 /\ wk["w1"].pc = "errProgress"
    /\ wk["w1"].item = 1 /\ queue[1].status = "error" /\ results = <<>>

\* C12: absorbed retries are invisible to the ledger. A retry of the call
\* appends no Error Entry and changes no Task Instance, Progress Record or
\* result row; the success commit that follows retries sets the row 'ok' and
\* leaves its attempts field and the Error Log unchanged.
RetriesInvisible ==
    [][\A w \in Workers :
         /\ (wk[w].pc = "call" /\ wk'[w].pc = "call" /\ wk'[w].retries = wk[w].retries + 1)
            => /\ errors' = errors /\ queue' = queue
               /\ progress' = progress /\ results' = results
         /\ (wk[w].retries > 0 /\ wk[w].pc = "completeQueue" /\ wk'[w].pc = "completeProgress")
            => /\ queue'[wk[w].item].status = "ok"
               /\ queue'[wk[w].item].attempts = queue[wk[w].item].attempts
               /\ errors' = errors
         /\ (wk[w].retries > 0 /\ wk[w].pc = "completeProgress"
             /\ wk'[w].successful = wk[w].successful + 1)
            => /\ progress'[ItemKey(w)].status = "ok"
               /\ errors' = errors /\ queue' = queue]_vars

\* C12 witness: two rate-limit or server errors were retried, the third
\* response validated and row 1 is 'ok' with attempts 0 and an empty Error Log
RetriesInvisibleWitness ==
    /\ wk["w1"].retries = 2 /\ wk["w1"].calls = 3 /\ wk["w1"].last = "valid"
    /\ wk["w1"].pc = "completeProgress" /\ wk["w1"].item = 1
    /\ queue[1].status = "ok" /\ queue[1].attempts = 0 /\ errors = <<>>

\* C13: retry cap. At most RetryMax + 1 completion requests are sent for one
\* claimed instance; a retryable error becomes terminal only at the request
\* number RetryMax + 1, and its failure commit sets the row 'error', adds one
\* to attempts and appends exactly one Error Entry.
RetryCap ==
    [][\A w \in Workers :
         /\ wk'[w].calls <= RetryMax + 1
         /\ (wk[w].pc = "call" /\ wk'[w].pc = "errQueue" /\ wk'[w].last \in RetryableErrors)
            => wk'[w].calls = RetryMax + 1 /\ wk'[w].err = wk'[w].last
         /\ (wk[w].last \in RetryableErrors /\ wk[w].pc = "errQueue" /\ wk'[w].pc = "errProgress")
            => /\ queue'[wk[w].item].status = "error"
               /\ queue'[wk[w].item].attempts = queue[wk[w].item].attempts + 1
         /\ (wk[w].last \in RetryableErrors /\ wk[w].pc = "errLog"
             /\ wk'[w].failed = wk[w].failed + 1)
            => /\ Len(errors') = Len(errors) + 1
               /\ errors'[Len(errors')] = [key |-> ItemKey(w), error |-> wk[w].last]]_vars

\* C13 witness: every one of the RetryMax + 1 requests for row 1 failed with
\* a server error; the row is 'error' with attempts 1
RetryCapWitness ==
    /\ wk["w1"].calls = RetryMax + 1 /\ wk["w1"].retries = RetryMax
    /\ wk["w1"].last = "server" /\ wk["w1"].pc = "errLog" /\ wk["w1"].item = 1
    /\ queue[1].status = "error" /\ queue[1].attempts = 1 /\ errors = <<>>

\* C14: backoff monotonicity. The delay slept before retry index i (the
\* value of retries when the error is caught, i = 0 .. RetryMax - 1) is
\* BackoffSec * 1000 * 2^i milliseconds, and it is never less than the delay
\* of the retry before it.
BackoffMonotone ==
    [][\A w \in Workers :
         (wk[w].pc = "call" /\ wk'[w].pc = "call" /\ wk'[w].retries = wk[w].retries + 1)
         => /\ wk[w].retries < RetryMax
            /\ wk'[w].slept = BackoffSec * 1000 * 2^(wk[w].retries)
            /\ wk'[w].slept >= wk[w].slept]_vars

\* C14 witness: the third retry (index 2) of one chain has slept four times
\* the base delay
BackoffMonotoneWitness ==
    /\ wk["w1"].pc = "call" /\ wk["w1"].retries = 3 /\ wk["w1"].calls = 3
    /\ wk["w1"].slept = 4 * BackoffSec * 1000

\* C15: a timeout of the completion request is retried like a rate-limit or
\* server error: below the retry cap it leaves the worker in callOpenAI with
\* one more retry.
TimeoutRetried ==
    [][\A w \in Workers :
         (wk[w].pc = "call" /\ wk'[w].last = "timeout" /\ wk[w].retries < RetryMax)
         => wk'[w].pc = "call" /\ wk'[w].retries = wk[w].retries + 1]_vars

\* C16: a client fault ends the attempt chain at once. The error is not
\* retried, whatever the number of retries so far; no completion request for
\* the instance follows it (exactly one was sent when it is the first
\* response), and the failure commit sets the row 'error'.
ClientFaultFinal ==
    [][\A w \in Workers :
         /\ (wk[w].pc = "call" /\ wk'[w].last = "client")
            => /\ wk'[w].pc = "errQueue" /\ wk'[w].err = "client"
               /\ wk'[w].retries = wk[w].retries
               /\ wk'[w].calls = wk[w].retries + 1
         /\ wk[w].last = "client"
            => wk'[w].pc # "call" /\ wk'[w].calls \in {wk[w].calls, 0}
         /\ (wk[w].last = "client" /\ wk[w].pc = "errQueue" /\ wk'[w].pc = "errProgress")
            => queue'[wk[w].item].status = "error"]_vars

\* C16 witness: the first response for row 1 was a client fault; one request
\* was sent and the row is 'error'
ClientFaultFinalWitness ==
    /\ wk["w1"].last = "client" /\ wk["w1"].calls = 1 /\ wk["w1"].retries = 0
    /\ wk["w1"].pc = "errProgress" /\ wk["w1"].item = 1 /\ queue[1].status = "error"

Terminal(q) == {id \in 1..Len(q) : q[id].status \in {"ok", "error"}}

\* C17: max_items budget. A worker run with --max=N leaves at most N rows in
\* a terminal status; when it has exited and the backlog held at least N
\* pending rows it leaves exactly N, and every other row is still 'pending'.
MaxItemsBudget ==
    \A w \in Solo :
        wk[w].maxItems # <<>>
        => LET N == wk[w].maxItems[1]
           IN  /\ Cardinality(Terminal(queue)) <= N
               /\ (wk[w].pc = "exited" /\ Len(queue) >= N)
                  => /\ Cardinality(Terminal(queue)) = N
                     /\ \A id \in QueueIds \ Terminal(queue) : queue[id].status = "pending"

\* C18: idle polling. The worker leaves the loop from an empty fetch only
\* when a max_items budget is set and already used up.
IdleKeepsPolling ==
    [][\A w \in Workers :
         (wk[w].pc = "fetch" /\ wk'[w].pc = "exited")
         => wk[w].maxItems # <<>> /\ wk[w].processed >= wk[w].maxItems[1]]_vars

\* C19: an error while one instance is processed (call, validation, a write
\* of either commit) never ends the worker process.
ErrorKeepsWorker ==
    [][\A w \in Workers :
         wk[w].pc \in {"markRunning", "call", "save", "completeQueue", "completeProgress",
                       "errQueue", "errProgress", "errLog"}
         => wk'[w].pc # "failed"]_vars

\* C20: PersistenceFailure. After a write of the success commit was rejected
\* (saveCareerIntelligence or a statement of markQueueItemComplete), the Task
\* Instance is left 'running'.
PersistenceFailureStaysRunning ==
    [][\A w \in Workers :
         (wk[w].pc = "errQueue" /\ wk[w].err = "db" /\ wk[w].last = "valid")
         => queue'[wk[w].item].status = "running"]_vars

TemplateRows(t, id) == {i \in 1..Len(t) : t[i].id = id}

\* C21: shutdown finishes the instance in flight. No worker process has ended
\* on a shutdown signal while the row it had claimed is still 'running'.
ShutdownFinishesInFlight ==
    \A w \in Workers :
        (wk[w].pc = "killed" /\ wk[w].item # 0) => queue[wk[w].item].status # "running"

\* C22: a dry run writes nothing. Every step of a worker started with
\* --dry-run leaves ai_job_queue, job_progress, career_intelligence_data and
\* ai_errors unchanged.
DryRunWritesNothing ==
    [][\A w \in Solo :
         wk[w].dryRun => /\ queue' = queue /\ progress' = progress
                         /\ results' = results /\ errors' = errors]_vars

\* C23: republishing a prompt template overwrites. Every step of the
\* installer leaves one row per id; publishing any template into the table
\* leaves exactly one row of its id, holding the published content, leaves the
\* other rows as they were, and publishing it a second time changes nothing.
RepublishOverwrites ==
    /\ \A id \in TemplateIds : Cardinality(TemplateRows(prompt_templates, id)) <= 1
    /\ \A id \in TemplateIds, content \in TemplateContents :
         LET t1 == upsertPrompt(prompt_templates, id, content)
         IN  /\ Cardinality(TemplateRows(t1, id)) = 1
             /\ \A i \in TemplateRows(t1, id) : t1[i].content = content
             /\ \A i \in 1..Len(prompt_templates) :
                  prompt_templates[i].id # id => t1[i] = prompt_templates[i]
             /\ Len(t1) = Len(prompt_templates) + (IF HasTemplate(prompt_templates, id) THEN 0 ELSE 1)
             /\ upsertPrompt(t1, id, content) = t1

\* C23 witness: the template of q1, installed first with content v1, was
\* republished with content v3 after the others were published; it is still
\* the first of four rows
RepublishOverwritesWitness ==
    /\ Len(prompt_templates) = 4
    /\ prompt_templates[1] = [id |-> "q1", content |-> "v3"]
    /\ \A id \in TemplateIds : Cardinality(TemplateRows(prompt_templates, id)) = 1

\* C24: state machine. The only changes of a row's status are
\* pending -> running, running -> ok and running -> error, in the steps of
\* the worker and of the administrative endpoints.
OnlyLegalTransitions ==
    [][\A id \in QueueIds :
         queue'[id].status # queue[id].status
         => <<queue[id].status, queue'[id].status>> \in
               {<<"pending", "running">>, <<"running", "ok">>, <<"running", "error">>}]_vars

\* C25: attempts counts terminal failures only. In every step attempts of a
\* row stays or grows by exactly 1; it grows exactly in the first statement
\* of a failure commit of that row, and so is unchanged by claims, absorbed
\* retries and success commits.
AttemptsCountFailures ==
    [][\A id \in QueueIds :
         LET failing == \E w \in Workers : /\ wk[w].item = id /\ wk[w].pc = "errQueue"
                                           /\ wk'[w].pc = "errProgress"
         IN  /\ queue'[id].attempts \in {queue[id].attempts, queue[id].attempts + 1}
             /\ failing <=> queue'[id].attempts = queue[id].attempts + 1]_vars

\* C25 witness: row 1 failed once (attempts 1); row 2 was claimed, its call
\* was retried and it is committed 'ok' with attempts 0
AttemptsCountFailuresWitness ==
    /\ Len(queue) = 2 /\ queue[1].status = "error" /\ queue[1].attempts = 1
    /\ wk["w1"].item = 2 /\ wk["w1"].pc = "completeProgress" /\ wk["w1"].retries >= 1
    /\ queue[2].status = "ok" /\ queue[2].attempts = 0

OkHasNoLastError ==
    \A id \in QueueIds : queue[id].status = "ok" => queue[id].last_error = NULL

\* C28: frame. A step of a worker changes no ai_job_queue row but the one
\* it has fetched, no job_progress or career_intelligence_data row of another
\* key, and appends no Error Entry of another key.
OnlyOwnRows ==
    [][\A w \in Solo :
         /\ Len(queue') = Len(queue) /\ DOMAIN progress' = DOMAIN progress
         /\ \A id \in QueueIds : id # wk[w].item => queue'[id] = queue[id]
         /\ \A k \in DOMAIN progress :
              (wk[w].item = 0 \/ k # ItemKey(w)) => progress'[k] = progress[k]
         /\ \A i \in 1..Len(results) :
              (wk[w].item = 0 \/ results[i].key # ItemKey(w)) => results'[i] = results[i]
         /\ \A i \in (Len(results) + 1)..Len(results') :
              wk[w].item # 0 /\ results'[i].key = ItemKey(w)
         /\ \A i \in 1..Len(errors) : errors'[i] = errors[i]
         /\ \A i \in (Len(errors) + 1)..Len(errors') :
              wk[w].item # 0 /\ errors'[i].key = ItemKey(w)]_vars

\* C28 witness: rows 1 and 2 have different keys; row 1 was processed and
\* failed, row 2 was processed and succeeded, and each key has its own
\* progress, result and error rows
OnlyOwnRowsWitness ==
    /\ Len(queue) = 2 /\ KeyOf(queue[1]) # KeyOf(queue[2])
    /\ queue[1].status = "error" /\ queue[2].status = "ok"
    /\ progress[KeyOf(queue[1])].status = "error" /\ progress[KeyOf(queue[2])].status = "ok"
    /\ Len(results) = 1 /\ results[1].key = KeyOf(queue[2])
    /\ Len(errors) = 1 /\ errors[1].key = KeyOf(queue[1])

RegionFilterExact ==
    \A r \in RegionCodes :
        LET id == fetchQueueItem(queue, r)
            ofRegion == {o \in QueueIds : queue[o].region = r /\ queue[o].status = "pending"}
        IN  /\ id # 0 => id \in ofRegion
            /\ id = 0 <=> ofRegion = {}

\* C30 witness: with the filter EU the fetch has returned row 3, though the
\* US rows 1 and 2 are pending, with a lower id and a higher priority
RegionFilterExactWitness ==
    /\ Len(queue) = 3 /\ wk["w1"].region = EU
    /\ wk["w1"].pc = "markRunning" /\ wk["w1"].item = 3 /\ queue[3].region = EU
    /\ queue[1].region = US /\ queue[1].status = "pending"
    /\ queue[2].region = US /\ queue[2].status = "pending"
    /\ queue[2].priority > queue[3].priority

\* C31: validateJSON accepts exactly the payloads that parse and contain the
\* four top-level fields query_id, job, data and provenance, whatever the
\* values of the fields; every other payload is rejected with a reason.
ValidateAcceptsPresent ==
    [][\A w \in Solo :
         wk[w].pc = "validate"
         => LET c == wk[w].data
                present == /\ c.parses
                           /\ c.query_id # "absent" /\ c.job # "absent"
                           /\ c.data # "absent" /\ c.provenance # "absent"
            IN  /\ present => wk'[w].pc = "save" /\ wk'[w].data = c
                /\ ~present => wk'[w].pc = "errQueue" /\ wk'[w].err = "invalid"]_vars

\* The worker process is in its loop
Running(w) == wk[w].pc \notin {"idle", "exited", "failed", "killed"}

\* C32: liveness. While the worker w1, started without a budget, keeps
\* running, every pending row eventually becomes 'ok' or 'error'.
EveryPendingFinishes ==
    \A id \in 1..MaxRows :
        (id \in QueueIds /\ queue[id].status = "pending" /\ Running("w1"))
        ~> \/ id \in QueueIds /\ queue[id].status \in {"ok", "error"}
           \/ ~Running("w1")

\* C33: a worker run started through POST /api/admin/worker/start with
\* maxItems = N processes at most N items, whatever other admin requests are
\* handled before or while it parses its options.
BudgetAsRequested ==
    \A w \in Workers :
        workerStart[w].pc \in {"running", "closing", "closed", "done"}
        => wk[w].processed <= workerStart[w].maxItems

\* C34: the pool is not closed under another user. While the closePool of
\* one worker run is in progress, no other worker's statement is rejected so
\* that the worker dies with the row it claimed left 'running'.
PoolOutlivesUsers ==
    [][\A w \in Workers :
         (pool = "ending" /\ wk[w].item \in QueueIds
          /\ wk[w].pc # "failed" /\ wk'[w].pc = "failed")
         => queue'[wk[w].item].status # "running"]_vars

====
